---- MODULE Spec2Model ----
(***************************************************************************)
(* Trade-cycle reconstruction and profit/loss engine of                    *)
(* src/lib/tradeCycles.ts: calculateTradeCycles followed by                *)
(* flattenTradeCycles, run over a bounded list of swap trades.             *)
(*                                                                         *)
(* Numbers are integers (the code computes in IEEE doubles; every amount   *)
(* and value used here is an integer far below 2^53, on which the code's   *)
(* additions and subtractions are exact).  A symbol is the sequence of its *)
(* characters, so that String.prototype.toUpperCase is computed character  *)
(* by character.  An optional field (endDate, duration) is a sequence of   *)
(* length 0 (absent) or 1 (present).                                       *)
(***************************************************************************)
EXTENDS Integers, Sequences, FiniteSets, TLC

VARIABLES
    trades,          \* the caller's trade array (input of calculateTradeCycles)
    given,           \* what the caller passes as trades: "array", "null" or "undefined"
    pc,              \* position in calculateTradeCycles / flattenTradeCycles
    tokenMap,        \* Map<string, Trade[]> of groupTradesByToken, in insertion order
    tokIdx,          \* position of tokenMap.forEach
    sortedTrades,    \* createTradeGroupsForToken: the sorted copy of the bucket
    tradeIdx,        \* position of sortedTrades.forEach
    tradeGroups,     \* createTradeGroupsForToken: groups of the asset being walked
    currentGroup,    \* index in tradeGroups of the group currentGroup refers to, 0 = null
    runningBalance,  \* createTradeGroupsForToken: running balance
    tradeCounter,    \* createTradeGroupsForToken: next tradeNumber
    tradeCycles,     \* result array of calculateTradeCycles
    flat             \* result of flattenTradeCycles

vars == <<trades, given, pc, tokenMap, tokIdx, sortedTrades, tradeIdx, tradeGroups,
          currentGroup, runningBalance, tradeCounter, tradeCycles, flat>>

walkVars == <<sortedTrades, tradeIdx, tradeGroups, currentGroup, runningBalance, tradeCounter>>

---------------------------------------------------------------------------
(* Constants of the program *)

DUST_THRESHOLD == 100

MS_TO_SECONDS == 1000

(* Bound of the model: length of the input trade array *)
MaxTrades == 3

---------------------------------------------------------------------------
(* Strings as character sequences, and toUpperCase *)

LowerLetters == <<"a","b","c","d","e","f","g","h","i","j","k","l","m",
                  "n","o","p","q","r","s","t","u","v","w","x","y","z">>

UpperLetters == <<"A","B","C","D","E","F","G","H","I","J","K","L","M",
                  "N","O","P","Q","R","S","T","U","V","W","X","Y","Z">>

ToUpperChar(c) ==
    IF \E i \in DOMAIN LowerLetters : LowerLetters[i] = c
    THEN UpperLetters[CHOOSE i \in DOMAIN LowerLetters : LowerLetters[i] = c]
    ELSE c

ToUpperCase(s) == [i \in 1..Len(s) |-> ToUpperChar(s[i])]

EXCLUDED_TOKENS ==
    { <<"S","O","L">>, <<"W","S","O","L">>,
      <<"W","r","a","p","p","e","d"," ","S","O","L">>,
      <<"U","S","D","C">>, <<"U","S","D","T">>, <<"U","S","D","S">>,
      <<"P","Y","U","S","D">>, <<"D","A","I">>,
      <<"m","S","O","L">>, <<"s","t","S","O","L">>,
      <<"j","i","t","o","S","O","L">>, <<"b","S","O","L">> }

IsExcludedToken(symbol) == ToUpperCase(symbol) \in EXCLUDED_TOKENS

---------------------------------------------------------------------------
(* Pure helpers of tradeCycles.ts *)

Abs(x) == IF x < 0 THEN -x ELSE x

(* Variant: only an exactly zero balance counts as zero *)
IsEffectivelyZero_Exact(balance) == balance = 0

(* Variant: Math.abs is left out *)
IsEffectivelyZero_Signed(balance) == balance < DUST_THRESHOLD

IsEffectivelyZero(balance) == Abs(balance) < DUST_THRESHOLD

(* Variant: the out side is a buy and the in side a sell, exchanged *)
DetermineTradeDirection_Swapped(trade, tokenMint) ==
    LET isTokenOut == trade.tokenOut.address = tokenMint
        isTokenIn  == trade.tokenIn.address = tokenMint
    IN  IF isTokenOut /\ isTokenIn THEN "null"
        ELSE IF isTokenOut THEN "sell"
        ELSE IF isTokenIn THEN "buy"
        ELSE "null"

(* Variant: a token on both sides is classified by its in side *)
DetermineTradeDirection_BothIsSell(trade, tokenMint) ==
    LET isTokenOut == trade.tokenOut.address = tokenMint
        isTokenIn  == trade.tokenIn.address = tokenMint
    IN  IF isTokenIn THEN "sell"
        ELSE IF isTokenOut THEN "buy"
        ELSE "null"

(* Variant: the test for a token on both sides is left out *)
DetermineTradeDirection_BothIsBuy(trade, tokenMint) ==
    LET isTokenOut == trade.tokenOut.address = tokenMint
        isTokenIn  == trade.tokenIn.address = tokenMint
    IN  IF isTokenOut THEN "buy"
        ELSE IF isTokenIn THEN "sell"
        ELSE "null"

DetermineTradeDirection(trade, tokenMint) ==
    LET isTokenOut == trade.tokenOut.address = tokenMint
        isTokenIn  == trade.tokenIn.address = tokenMint
    IN  IF isTokenOut /\ isTokenIn THEN "null"
        ELSE IF isTokenOut THEN "buy"
        ELSE IF isTokenIn THEN "sell"
        ELSE "null"

(* Variant: the bucket stores a copy of the trade with the timestamp in ms *)
AddTradeToTokenMap_Restamp(map, tokenMint, trade) ==
    LET copy == [trade EXCEPT !.timestamp = @ * MS_TO_SECONDS]
    IN  IF \E i \in DOMAIN map : map[i].mint = tokenMint
        THEN LET i == CHOOSE j \in DOMAIN map : map[j].mint = tokenMint
             IN  [map EXCEPT ![i].trades = Append(@, copy)]
        ELSE Append(map, [mint |-> tokenMint, trades |-> <<copy>>])

AddTradeToTokenMap(map, tokenMint, trade) ==
    IF \E i \in DOMAIN map : map[i].mint = tokenMint
    THEN LET i == CHOOSE j \in DOMAIN map : map[j].mint = tokenMint
         IN  [map EXCEPT ![i].trades = Append(@, trade)]
    ELSE Append(map, [mint |-> tokenMint, trades |-> <<trade>>])

(* Variant: a trade is registered under its out-asset only *)
RECURSIVE GroupTradesFrom_OutOnly(_, _, _)
GroupTradesFrom_OutOnly(ts, i, map) ==
    IF i > Len(ts) THEN map
    ELSE GroupTradesFrom_OutOnly(ts, i + 1,
             AddTradeToTokenMap(map, ts[i].tokenOut.address, ts[i]))

(* Variant: the tokenInMint !== tokenOutMint test is left out *)
RECURSIVE GroupTradesFrom_NoSelfCheck(_, _, _)
GroupTradesFrom_NoSelfCheck(ts, i, map) ==
    IF i > Len(ts) THEN map
    ELSE LET trade == ts[i]
             m1 == AddTradeToTokenMap(map, trade.tokenOut.address, trade)
             m2 == AddTradeToTokenMap(m1, trade.tokenIn.address, trade)
         IN  GroupTradesFrom_NoSelfCheck(ts, i + 1, m2)

RECURSIVE GroupTradesFrom(_, _, _)
GroupTradesFrom(ts, i, map) ==
    IF i > Len(ts) THEN map
    ELSE LET trade        == ts[i]
             tokenOutMint == trade.tokenOut.address
             tokenInMint  == trade.tokenIn.address
             m1 == AddTradeToTokenMap(map, tokenOutMint, trade)
             m2 == IF tokenInMint # tokenOutMint
                   THEN AddTradeToTokenMap(m1, tokenInMint, trade)
                   ELSE m1
         IN  GroupTradesFrom(ts, i + 1, m2)

GroupTradesByToken(ts) == GroupTradesFrom(ts, 1, <<>>)

ExtractTokenSymbol(trade, tokenMint) ==
    IF trade.tokenOut.address = tokenMint THEN trade.tokenOut.symbol
    ELSE IF trade.tokenIn.address = tokenMint THEN trade.tokenIn.symbol
    ELSE <<>>

(* Variant: a flat balance starts a new group whatever the direction *)
ShouldStartNewGroup_AnyDirection(cur, balance, tradeDirection) ==
    IF cur = 0 THEN TRUE
    ELSE IF IsEffectivelyZero(balance) THEN TRUE
    ELSE FALSE

(* Variant: every buy starts a new group *)
ShouldStartNewGroup_AnyBuy(cur, balance, tradeDirection) ==
    IF cur = 0 THEN TRUE
    ELSE IF tradeDirection = "buy" THEN TRUE
    ELSE FALSE

ShouldStartNewGroup(cur, balance, tradeDirection) ==
    IF cur = 0 THEN TRUE
    ELSE IF IsEffectivelyZero(balance) /\ tradeDirection = "buy" THEN TRUE
    ELSE FALSE


(* Variant: the new group is created with endDate already set *)
NewTradeGroup_WithEndDate(number, tokenSymbol, tokenMint, balance, trade) ==
    [ tradeNumber     |-> number,
      token           |-> tokenSymbol,
      tokenMint       |-> tokenMint,
      buys            |-> <<>>,
      sells           |-> <<>>,
      totalBuyAmount  |-> 0,
      totalSellAmount |-> 0,
      totalBuyValue   |-> 0,
      totalSellValue  |-> 0,
      startBalance    |-> balance,
      endBalance      |-> 0,
      profitLoss      |-> 0,
      isComplete      |-> FALSE,
      startDate       |-> trade.timestamp,
      endDate         |-> <<trade.timestamp>>,
      duration        |-> <<>> ]

(* Variant: the new group starts from a zero balance *)
NewTradeGroup_ZeroStart(number, tokenSymbol, tokenMint, balance, trade) ==
    [ tradeNumber     |-> number,
      token           |-> tokenSymbol,
      tokenMint       |-> tokenMint,
      buys            |-> <<>>,
      sells           |-> <<>>,
      totalBuyAmount  |-> 0,
      totalSellAmount |-> 0,
      totalBuyValue   |-> 0,
      totalSellValue  |-> 0,
      startBalance    |-> 0,
      endBalance      |-> 0,
      profitLoss      |-> 0,
      isComplete      |-> FALSE,
      startDate       |-> trade.timestamp,
      endDate         |-> <<>>,
      duration        |-> <<>> ]

(* The object literal of createTradeGroupsForToken, lines 285-300 *)
NewTradeGroup(number, tokenSymbol, tokenMint, balance, trade) ==
    [ tradeNumber     |-> number,
      token           |-> tokenSymbol,
      tokenMint       |-> tokenMint,
      buys            |-> <<>>,
      sells           |-> <<>>,
      totalBuyAmount  |-> 0,
      totalSellAmount |-> 0,
      totalBuyValue   |-> 0,
      totalSellValue  |-> 0,
      startBalance    |-> balance,
      endBalance      |-> 0,
      profitLoss      |-> 0,
      isComplete      |-> FALSE,
      startDate       |-> trade.timestamp,
      endDate         |-> <<>>,
      duration        |-> <<>> ]

(* Variant: profitLoss is computed before the totals are updated *)
ProcessTradeIntoGroup_StaleProfit(group, trade, tradeDirection, currentBalance) ==
    LET g1 == IF tradeDirection = "buy"
              THEN [group EXCEPT !.buys = Append(@, trade),
                                 !.totalBuyAmount = @ + trade.amountOut,
                                 !.totalBuyValue = @ + trade.valueUSD]
              ELSE IF tradeDirection = "sell"
              THEN [group EXCEPT !.sells = Append(@, trade),
                                 !.totalSellAmount = @ + trade.amountIn,
                                 !.totalSellValue = @ + trade.valueUSD]
              ELSE group
        newBalance == IF tradeDirection = "buy" THEN currentBalance + trade.amountOut
                      ELSE IF tradeDirection = "sell" THEN currentBalance - trade.amountIn
                      ELSE currentBalance
        g2 == [g1 EXCEPT !.endBalance = newBalance,
                         !.profitLoss = group.totalSellValue - group.totalBuyValue]
        g3 == IF IsEffectivelyZero(newBalance)
              THEN [g2 EXCEPT !.isComplete = TRUE,
                              !.endDate = <<trade.timestamp>>,
                              !.duration = <<(trade.timestamp - g2.startDate) * MS_TO_SECONDS>>]
              ELSE g2
    IN  [group |-> g3, newBalance |-> newBalance]

(* Variant: a sell takes amountOut, the other leg of the swap, off the balance *)
ProcessTradeIntoGroup_SellAmountOut(group, trade, tradeDirection, currentBalance) ==
    LET g1 == IF tradeDirection = "buy"
              THEN [group EXCEPT !.buys = Append(@, trade),
                                 !.totalBuyAmount = @ + trade.amountOut,
                                 !.totalBuyValue = @ + trade.valueUSD]
              ELSE IF tradeDirection = "sell"
              THEN [group EXCEPT !.sells = Append(@, trade),
                                 !.totalSellAmount = @ + trade.amountIn,
                                 !.totalSellValue = @ + trade.valueUSD]
              ELSE group
        newBalance == IF tradeDirection = "buy" THEN currentBalance + trade.amountOut
                      ELSE IF tradeDirection = "sell" THEN currentBalance - trade.amountOut
                      ELSE currentBalance
        g2 == [g1 EXCEPT !.endBalance = newBalance,
                         !.profitLoss = g1.totalSellValue - g1.totalBuyValue]
        g3 == IF IsEffectivelyZero(newBalance)
              THEN [g2 EXCEPT !.isComplete = TRUE,
                              !.endDate = <<trade.timestamp>>,
                              !.duration = <<(trade.timestamp - g2.startDate) * MS_TO_SECONDS>>]
              ELSE g2
    IN  [group |-> g3, newBalance |-> newBalance]

(* Variant: a buy adds its valueUSD to totalSellValue *)
ProcessTradeIntoGroup_BuyValueToSell(group, trade, tradeDirection, currentBalance) ==
    LET g1 == IF tradeDirection = "buy"
              THEN [group EXCEPT !.buys = Append(@, trade),
                                 !.totalBuyAmount = @ + trade.amountOut,
                                 !.totalSellValue = @ + trade.valueUSD]
              ELSE IF tradeDirection = "sell"
              THEN [group EXCEPT !.sells = Append(@, trade),
                                 !.totalSellAmount = @ + trade.amountIn,
                                 !.totalSellValue = @ + trade.valueUSD]
              ELSE group
        newBalance == IF tradeDirection = "buy" THEN currentBalance + trade.amountOut
                      ELSE IF tradeDirection = "sell" THEN currentBalance - trade.amountIn
                      ELSE currentBalance
        g2 == [g1 EXCEPT !.endBalance = newBalance,
                         !.profitLoss = g1.totalSellValue - g1.totalBuyValue]
        g3 == IF IsEffectivelyZero(newBalance)
              THEN [g2 EXCEPT !.isComplete = TRUE,
                              !.endDate = <<trade.timestamp>>,
                              !.duration = <<(trade.timestamp - g2.startDate) * MS_TO_SECONDS>>]
              ELSE g2
    IN  [group |-> g3, newBalance |-> newBalance]

(* Variant: duration is the timestamp difference, not multiplied *)
ProcessTradeIntoGroup_DurationUnscaled(group, trade, tradeDirection, currentBalance) ==
    LET g1 == IF tradeDirection = "buy"
              THEN [group EXCEPT !.buys = Append(@, trade),
                                 !.totalBuyAmount = @ + trade.amountOut,
                                 !.totalBuyValue = @ + trade.valueUSD]
              ELSE IF tradeDirection = "sell"
              THEN [group EXCEPT !.sells = Append(@, trade),
                                 !.totalSellAmount = @ + trade.amountIn,
                                 !.totalSellValue = @ + trade.valueUSD]
              ELSE group
        newBalance == IF tradeDirection = "buy" THEN currentBalance + trade.amountOut
                      ELSE IF tradeDirection = "sell" THEN currentBalance - trade.amountIn
                      ELSE currentBalance
        g2 == [g1 EXCEPT !.endBalance = newBalance,
                         !.profitLoss = g1.totalSellValue - g1.totalBuyValue]
        g3 == IF IsEffectivelyZero(newBalance)
              THEN [g2 EXCEPT !.isComplete = TRUE,
                              !.endDate = <<trade.timestamp>>,
                              !.duration = <<trade.timestamp - g2.startDate>>]
              ELSE g2
    IN  [group |-> g3, newBalance |-> newBalance]

(* Variant: endBalance counts the trades of the group only *)
ProcessTradeIntoGroup_EndBalanceOfGroup(group, trade, tradeDirection, currentBalance) ==
    LET g1 == IF tradeDirection = "buy"
              THEN [group EXCEPT !.buys = Append(@, trade),
                                 !.totalBuyAmount = @ + trade.amountOut,
                                 !.totalBuyValue = @ + trade.valueUSD]
              ELSE IF tradeDirection = "sell"
              THEN [group EXCEPT !.sells = Append(@, trade),
                                 !.totalSellAmount = @ + trade.amountIn,
                                 !.totalSellValue = @ + trade.valueUSD]
              ELSE group
        newBalance == IF tradeDirection = "buy" THEN currentBalance + trade.amountOut
                      ELSE IF tradeDirection = "sell" THEN currentBalance - trade.amountIn
                      ELSE currentBalance
        g2 == [g1 EXCEPT !.endBalance = g1.totalBuyAmount - g1.totalSellAmount,
                         !.profitLoss = g1.totalSellValue - g1.totalBuyValue]
        g3 == IF IsEffectivelyZero(newBalance)
              THEN [g2 EXCEPT !.isComplete = TRUE,
                              !.endDate = <<trade.timestamp>>,
                              !.duration = <<(trade.timestamp - g2.startDate) * MS_TO_SECONDS>>]
              ELSE g2
    IN  [group |-> g3, newBalance |-> newBalance]

(* processTradeIntoGroup: the updated group and the returned balance *)
ProcessTradeIntoGroup(group, trade, tradeDirection, currentBalance) ==
    LET g1 == IF tradeDirection = "buy"
              THEN [group EXCEPT !.buys = Append(@, trade),
                                 !.totalBuyAmount = @ + trade.amountOut,
                                 !.totalBuyValue = @ + trade.valueUSD]
              ELSE IF tradeDirection = "sell"
              THEN [group EXCEPT !.sells = Append(@, trade),
                                 !.totalSellAmount = @ + trade.amountIn,
                                 !.totalSellValue = @ + trade.valueUSD]
              ELSE group
        newBalance == IF tradeDirection = "buy" THEN currentBalance + trade.amountOut
                      ELSE IF tradeDirection = "sell" THEN currentBalance - trade.amountIn
                      ELSE currentBalance
        g2 == [g1 EXCEPT !.endBalance = newBalance,
                         !.profitLoss = g1.totalSellValue - g1.totalBuyValue]
        g3 == IF IsEffectivelyZero(newBalance)
              THEN [g2 EXCEPT !.isComplete = TRUE,
                              !.endDate = <<trade.timestamp>>,
                              !.duration = <<(trade.timestamp - g2.startDate) * MS_TO_SECONDS>>]
              ELSE g2
    IN  [group |-> g3, newBalance |-> newBalance]

(* Lines 274-281: finalize the previous group when a new one is started *)
FinalizePreviousGroup(group, balance, trade) ==
    IF ~group.isComplete
    THEN LET g1 == [group EXCEPT !.endBalance = balance,
                                 !.isComplete = IsEffectivelyZero(balance)]
         IN  IF g1.isComplete
             THEN [g1 EXCEPT !.endDate = <<trade.timestamp>>,
                             !.duration = <<(trade.timestamp - g1.startDate) * MS_TO_SECONDS>>]
             ELSE g1
    ELSE group

(* Stable sort: the permutation of 1..n that orders keys ascending, equal  *)
(* keys staying in index order (Array.prototype.sort is stable).           *)
RECURSIVE SortedIndices(_, _)
SortedIndices(keys, n) ==
    IF n = 0 THEN <<>>
    ELSE LET prev == SortedIndices(keys, n - 1)
             pos  == Cardinality({j \in DOMAIN prev : keys[prev[j]] <= keys[n]})
         IN  SubSeq(prev, 1, pos) \o <<n>> \o SubSeq(prev, pos + 1, Len(prev))

(* Variant: the bucket is walked in input order *)
SortByTimestamp_Unsorted(tokenTrades) == tokenTrades

(* [...tokenTrades].sort((a, b) => a.timestamp - b.timestamp) *)
SortByTimestamp(tokenTrades) ==
    LET keys == [i \in DOMAIN tokenTrades |-> tokenTrades[i].timestamp]
        perm == SortedIndices(keys, Len(tokenTrades))
    IN  [i \in DOMAIN tokenTrades |-> tokenTrades[perm[i]]]

(* Variant: the trade that opens a group is not processed into it *)
WalkTrade_OpenOnly(w, trade, tokenMint) ==
    LET tradeDirection == DetermineTradeDirection(trade, tokenMint)
    IN  IF tradeDirection = "null" THEN w
        ELSE
        LET start == ShouldStartNewGroup(w.currentGroup, w.runningBalance, tradeDirection)
            finalized == IF start /\ w.currentGroup # 0
                         THEN [w.tradeGroups EXCEPT ![w.currentGroup] =
                                  FinalizePreviousGroup(@, w.runningBalance, trade)]
                         ELSE w.tradeGroups
            tokenSymbol == IF tradeDirection = "buy" THEN trade.tokenOut.symbol
                           ELSE trade.tokenIn.symbol
            groups == IF start
                      THEN Append(finalized,
                                  NewTradeGroup(w.tradeCounter, tokenSymbol, tokenMint,
                                                w.runningBalance, trade))
                      ELSE finalized
            cur == IF start THEN Len(groups) ELSE w.currentGroup
            r == IF start
                 THEN [group |-> groups[cur], newBalance |-> w.runningBalance]
                 ELSE ProcessTradeIntoGroup(groups[cur], trade, tradeDirection,
                                            w.runningBalance)
        IN  [ tradeGroups    |-> [groups EXCEPT ![cur] = r.group],
              currentGroup   |-> cur,
              runningBalance |-> r.newBalance,
              tradeCounter   |-> IF start THEN w.tradeCounter + 1 ELSE w.tradeCounter ]

(* Variant: currentGroup keeps pointing at the first group *)
WalkTrade_StaleCurrent(w, trade, tokenMint) ==
    LET tradeDirection == DetermineTradeDirection(trade, tokenMint)
    IN  IF tradeDirection = "null" THEN w
        ELSE
        LET start == ShouldStartNewGroup(w.currentGroup, w.runningBalance, tradeDirection)
            finalized == IF start /\ w.currentGroup # 0
                         THEN [w.tradeGroups EXCEPT ![w.currentGroup] =
                                  FinalizePreviousGroup(@, w.runningBalance, trade)]
                         ELSE w.tradeGroups
            tokenSymbol == IF tradeDirection = "buy" THEN trade.tokenOut.symbol
                           ELSE trade.tokenIn.symbol
            groups == IF start
                      THEN Append(finalized,
                                  NewTradeGroup(w.tradeCounter, tokenSymbol, tokenMint,
                                                w.runningBalance, trade))
                      ELSE finalized
            cur == IF w.currentGroup = 0 THEN Len(groups) ELSE w.currentGroup
            r == ProcessTradeIntoGroup(groups[cur], trade, tradeDirection, w.runningBalance)
        IN  [ tradeGroups    |-> [groups EXCEPT ![cur] = r.group],
              currentGroup   |-> cur,
              runningBalance |-> r.newBalance,
              tradeCounter   |-> IF start THEN w.tradeCounter + 1 ELSE w.tradeCounter ]

(* One iteration of sortedTrades.forEach in createTradeGroupsForToken.     *)
(* w holds the locals tradeGroups, currentGroup, runningBalance and        *)
(* tradeCounter.                                                           *)
WalkTrade(w, trade, tokenMint) ==
    LET tradeDirection == DetermineTradeDirection(trade, tokenMint)
    IN  IF tradeDirection = "null" THEN w
        ELSE
        LET start == ShouldStartNewGroup(w.currentGroup, w.runningBalance, tradeDirection)
            finalized == IF start /\ w.currentGroup # 0
                         THEN [w.tradeGroups EXCEPT ![w.currentGroup] =
                                  FinalizePreviousGroup(@, w.runningBalance, trade)]
                         ELSE w.tradeGroups
            tokenSymbol == IF tradeDirection = "buy" THEN trade.tokenOut.symbol
                           ELSE trade.tokenIn.symbol
            groups == IF start
                      THEN Append(finalized,
                                  NewTradeGroup(w.tradeCounter, tokenSymbol, tokenMint,
                                                w.runningBalance, trade))
                      ELSE finalized
            cur == IF start THEN Len(groups) ELSE w.currentGroup
            r == ProcessTradeIntoGroup(groups[cur], trade, tradeDirection, w.runningBalance)
        IN  [ tradeGroups    |-> [groups EXCEPT ![cur] = r.group],
              currentGroup   |-> cur,
              runningBalance |-> r.newBalance,
              tradeCounter   |-> IF start THEN w.tradeCounter + 1 ELSE w.tradeCounter ]

(* Variant: the counter starts at 0 *)
WalkInit_CounterFromZero ==
    [tradeGroups |-> <<>>, currentGroup |-> 0, runningBalance |-> 0, tradeCounter |-> 0]

WalkInit == [tradeGroups |-> <<>>, currentGroup |-> 0, runningBalance |-> 0, tradeCounter |-> 1]

RECURSIVE WalkFrom(_, _, _, _)
WalkFrom(w, sorted, i, tokenMint) ==
    IF i > Len(sorted) THEN w
    ELSE WalkFrom(WalkTrade(w, sorted[i], tokenMint), sorted, i + 1, tokenMint)

CreateTradeGroupsForToken(tokenMint, tokenTrades) ==
    IF Len(tokenTrades) = 0 THEN <<>>
    ELSE WalkFrom(WalkInit, SortByTimestamp(tokenTrades), 1, tokenMint).tradeGroups

(* Variant: only the length is tested, a missing array is not caught *)
IsMissingOrEmpty_LengthOnly(kind, array) == kind = "array" /\ Len(array) = 0

(* The guards !trades || trades.length === 0 (line 329) and                *)
(* !tradeCycles || tradeCycles.length === 0 (line 380); kind is "array",   *)
(* "null" or "undefined", and array is read only when kind is "array".     *)
IsMissingOrEmpty(kind, array) == kind # "array" \/ Len(array) = 0

(* Variant: a group counts as activity only if it moved an amount *)
HasActivity_NonZeroTotals(groups) ==
    Len(groups) > 0 /\ \E i \in DOMAIN groups :
        groups[i].totalBuyAmount > 0 \/ groups[i].totalSellAmount > 0

HasActivity(groups) ==
    Len(groups) > 0 /\ \E i \in DOMAIN groups : Len(groups[i].buys) > 0 \/ Len(groups[i].sells) > 0

(* Body of tokenMap.forEach in calculateTradeCycles, given the groups      *)
(* createTradeGroupsForToken returned: the result array afterwards.        *)
EmitTradeCycle(cycles, tokenMint, groups) ==
    IF HasActivity(groups)
    THEN Append(cycles, [token |-> groups[1].token, tokenMint |-> tokenMint,
                         tradeGroups |-> groups])
    ELSE cycles

RECURSIVE CyclesFrom(_, _, _)
CyclesFrom(map, i, cycles) ==
    IF i > Len(map) THEN cycles
    ELSE LET tokenMint   == map[i].mint
             tokenTrades == map[i].trades
             tokenSymbol == ExtractTokenSymbol(tokenTrades[1], tokenMint)
         IN  IF IsExcludedToken(tokenSymbol)
             THEN CyclesFrom(map, i + 1, cycles)
             ELSE CyclesFrom(map, i + 1,
                     EmitTradeCycle(cycles, tokenMint,
                                    CreateTradeGroupsForToken(tokenMint, tokenTrades)))

CalculateTradeCycles(ts) ==
    IF IsMissingOrEmpty("array", ts) THEN <<>>
    ELSE CyclesFrom(GroupTradesByToken(ts), 1, <<>>)

(* Variant: the counter restarts at 1 for every TradeCycle *)
RECURSIVE FlatMapFrom_PerCycleCounter(_, _, _, _)
FlatMapFrom_PerCycleCounter(cycles, c, g, acc) ==
    IF c > Len(cycles) THEN acc
    ELSE IF g > Len(cycles[c].tradeGroups) THEN FlatMapFrom_PerCycleCounter(cycles, c + 1, 1, acc)
    ELSE FlatMapFrom_PerCycleCounter(cycles, c, g + 1,
             Append(acc, ("globalTradeNumber" :> g) @@ cycles[c].tradeGroups[g]))

(* Variant: only complete groups are copied to the flat list *)
RECURSIVE FlatMapFrom_CompleteOnly(_, _, _, _)
FlatMapFrom_CompleteOnly(cycles, c, g, acc) ==
    IF c > Len(cycles) THEN acc
    ELSE IF g > Len(cycles[c].tradeGroups) THEN FlatMapFrom_CompleteOnly(cycles, c + 1, 1, acc)
    ELSE IF ~cycles[c].tradeGroups[g].isComplete
         THEN FlatMapFrom_CompleteOnly(cycles, c, g + 1, acc)
    ELSE FlatMapFrom_CompleteOnly(cycles, c, g + 1,
             Append(acc, ("globalTradeNumber" :> (Len(acc) + 1)) @@ cycles[c].tradeGroups[g]))

(* flatMap / map of flattenTradeCycles with the shared globalCounter *)
RECURSIVE FlatMapFrom(_, _, _, _)
FlatMapFrom(cycles, c, g, acc) ==
    IF c > Len(cycles) THEN acc
    ELSE IF g > Len(cycles[c].tradeGroups) THEN FlatMapFrom(cycles, c + 1, 1, acc)
    ELSE FlatMapFrom(cycles, c, g + 1,
             Append(acc, ("globalTradeNumber" :> (Len(acc) + 1)) @@ cycles[c].tradeGroups[g]))

(* Variant: the comparator is a.startDate - b.startDate, oldest first *)
SortByStartDateDesc_Ascending(allTrades) ==
    LET keys == [i \in DOMAIN allTrades |-> allTrades[i].startDate]
        perm == SortedIndices(keys, Len(allTrades))
    IN  [i \in DOMAIN allTrades |-> allTrades[perm[i]]]

(* allTrades.sort((a, b) => b.startDate - a.startDate) *)
SortByStartDateDesc(allTrades) ==
    LET keys == [i \in DOMAIN allTrades |-> 0 - allTrades[i].startDate]
        perm == SortedIndices(keys, Len(allTrades))
    IN  [i \in DOMAIN allTrades |-> allTrades[perm[i]]]

FlattenTradeCycles(cycles) ==
    IF IsMissingOrEmpty("array", cycles) THEN <<>>
    ELSE SortByStartDateDesc(FlatMapFrom(cycles, 1, 1, <<>>))

---------------------------------------------------------------------------
(* Input domain: trade lists of at most MaxTrades trades over three        *)
(* addresses, A and B traded against the quote address Q.                  *)

BONK == <<"B","O","N","K">>

WIF == <<"W","I","F">>

USDC == <<"U","S","D","C">>

LowerSol == <<"s","o","l">>

MSOL == <<"m","S","O","L">>

Token(address, symbol) == [address |-> address, symbol |-> symbol]

MkTrade(tokenIn, tokenOut, amountIn, amountOut, valueUSD) ==
    [ signature |-> 0, timestamp |-> 0, tokenIn |-> tokenIn, tokenOut |-> tokenOut,
      amountIn |-> amountIn, amountOut |-> amountOut, valueUSD |-> valueUSD ]

(* Trades of the asset A against the quote Q, with amounts on both sides   *)
(* of the dust threshold, and a self swap of A.                            *)
BalanceShapes ==
    { MkTrade(Token("Q", USDC), Token("A", BONK), 7, 0, 0),
      MkTrade(Token("Q", USDC), Token("A", BONK), 7, 40, 4),
      MkTrade(Token("Q", USDC), Token("A", BONK), 7, 1000, 100),
      MkTrade(Token("A", BONK), Token("Q", USDC), 960, 9, 110),
      MkTrade(Token("A", BONK), Token("Q", USDC), 1000, 9, 120),
      MkTrade(Token("A", BONK), Token("Q", USDC), 1500, 9, 150),
      MkTrade(Token("A", BONK), Token("A", BONK), 1000, 1000, 50) }

(* Trades of one asset whose balance comes back under the threshold more  *)
(* than once: sells of a dust amount next to buys and a self swap.         *)
ChainShapes ==
    { MkTrade(Token("Q", USDC), Token("A", BONK), 7, 40, 4),
      MkTrade(Token("Q", USDC), Token("A", BONK), 7, 1000, 100),
      MkTrade(Token("A", BONK), Token("Q", USDC), 40, 9, 5),
      MkTrade(Token("A", BONK), Token("Q", USDC), 960, 9, 110),
      MkTrade(Token("A", BONK), Token("A", BONK), 1000, 1000, 50) }

(* Trades that vary the labels the trades give to the addresses, swaps of  *)
(* A for B, and a self swap of B.                                          *)
SymbolShapes ==
    { MkTrade(Token("Q", USDC), Token("A", BONK), 7, 1000, 100),
      MkTrade(Token("Q", LowerSol), Token("A", MSOL), 7, 1000, 100),
      MkTrade(Token("Q", USDC), Token("A", USDC), 7, 1000, 100),
      MkTrade(Token("A", BONK), Token("Q", USDC), 1000, 9, 120),
      MkTrade(Token("A", BONK), Token("B", WIF), 1000, 500, 80),
      MkTrade(Token("B", WIF), Token("Q", USDC), 500, 9, 90),
      MkTrade(Token("B", WIF), Token("B", WIF), 500, 500, 50) }

(* Timestamps of a list of n trades: pairwise distinct (a permutation of   *)
(* 1..n), or with ties (drawn from two values).                            *)
TimePatterns(n) ==
    { tm \in [1..n -> 1..n] : \A i, j \in 1..n : i # j => tm[i] # tm[j] }
    \cup [1..n -> {1, 2}]

Stamp(shape, i, t) == [shape EXCEPT !.signature = i, !.timestamp = t]

(* The trade lists of at most MaxTrades trades drawn from shapes; the      *)
(* signature of a trade is its position: signatures are unique.            *)
IsInput(ts, shapes) ==
    \E n \in 0..MaxTrades :
        \E sh \in [1..n -> shapes], tm \in TimePatterns(n) :
            ts = [i \in 1..n |-> Stamp(sh[i], i, tm[i])]

---------------------------------------------------------------------------
(* The state machine: SummaryView calls calculateTradeCycles(trades) and   *)
(* then flattenTradeCycles on its result.                                  *)

Start ==
    /\ pc = "start"
    /\ tokenMap = <<>>
    /\ tokIdx = 0
    /\ sortedTrades = <<>>
    /\ tradeIdx = 0
    /\ tradeGroups = <<>>
    /\ currentGroup = 0
    /\ runningBalance = 0
    /\ tradeCounter = 1
    /\ tradeCycles = <<>>
    /\ flat = <<>>

Nullish == {"null", "undefined"}

(* The caller passes an array of trades drawn from shapes, or no array *)
Given(shapes) ==
    \/ given = "array" /\ IsInput(trades, shapes)
    \/ given \in Nullish /\ trades = <<>>

Init == Given(BalanceShapes) /\ Start

InitSym == Given(SymbolShapes) /\ Start

InitChain == Given(ChainShapes) /\ Start

(* calculateTradeCycles, lines 329-331: empty or missing input *)
ReturnEmpty ==
    /\ pc = "start"
    /\ IsMissingOrEmpty(given, trades)
    /\ pc' = "calculated"
    /\ tradeCycles' = <<>>
    /\ UNCHANGED <<trades, given, tokenMap, tokIdx, walkVars, flat>>

(* calculateTradeCycles, line 334; trades.forEach on a value that is not   *)
(* an array throws a TypeError                                             *)
GroupTrades ==
    /\ pc = "start"
    /\ ~IsMissingOrEmpty(given, trades)
    /\ IF given = "array"
       THEN /\ tokenMap' = GroupTradesByToken(trades)
            /\ tokIdx' = 1
            /\ pc' = "tokens"
       ELSE /\ pc' = "thrown"
            /\ UNCHANGED <<tokenMap, tokIdx>>
    /\ UNCHANGED <<trades, given, walkVars, tradeCycles, flat>>

CurrentMint == tokenMap[tokIdx].mint

(* tokenMap.forEach, lines 341-351: the bucket of an excluded symbol *)
SkipExcluded ==
    /\ pc = "tokens"
    /\ tokIdx <= Len(tokenMap)
    /\ IsExcludedToken(ExtractTokenSymbol(tokenMap[tokIdx].trades[1], CurrentMint))
    /\ tokIdx' = tokIdx + 1
    /\ UNCHANGED <<trades, given, pc, tokenMap, walkVars, tradeCycles, flat>>

(* tokenMap.forEach, line 354, and createTradeGroupsForToken, lines 253-263 *)
BeginToken ==
    /\ pc = "tokens"
    /\ tokIdx <= Len(tokenMap)
    /\ ~IsExcludedToken(ExtractTokenSymbol(tokenMap[tokIdx].trades[1], CurrentMint))
    /\ sortedTrades' = SortByTimestamp(tokenMap[tokIdx].trades)
    /\ tradeIdx' = 1
    /\ tradeGroups' = WalkInit.tradeGroups
    /\ currentGroup' = WalkInit.currentGroup
    /\ runningBalance' = WalkInit.runningBalance
    /\ tradeCounter' = WalkInit.tradeCounter
    /\ pc' = "walk"
    /\ UNCHANGED <<trades, given, tokenMap, tokIdx, tradeCycles, flat>>

Locals == [ tradeGroups |-> tradeGroups, currentGroup |-> currentGroup,
            runningBalance |-> runningBalance, tradeCounter |-> tradeCounter ]

(* sortedTrades.forEach, lines 266-269: a trade that does not involve the asset *)
SkipTrade ==
    /\ pc = "walk"
    /\ tradeIdx <= Len(sortedTrades)
    /\ DetermineTradeDirection(sortedTrades[tradeIdx], CurrentMint) = "null"
    /\ tradeIdx' = tradeIdx + 1
    /\ UNCHANGED <<trades, given, pc, tokenMap, tokIdx, sortedTrades, tradeGroups,
                   currentGroup, runningBalance, tradeCounter, tradeCycles, flat>>

(* sortedTrades.forEach, lines 266-307: a buy or a sell of the asset *)
ApplyTrade ==
    /\ pc = "walk"
    /\ tradeIdx <= Len(sortedTrades)
    /\ DetermineTradeDirection(sortedTrades[tradeIdx], CurrentMint) # "null"
    /\ LET w == WalkTrade(Locals, sortedTrades[tradeIdx], CurrentMint)
       IN  /\ tradeGroups' = w.tradeGroups
           /\ currentGroup' = w.currentGroup
           /\ runningBalance' = w.runningBalance
           /\ tradeCounter' = w.tradeCounter
    /\ tradeIdx' = tradeIdx + 1
    /\ UNCHANGED <<trades, given, pc, tokenMap, tokIdx, sortedTrades, tradeCycles, flat>>

(* createTradeGroupsForToken returns; calculateTradeCycles, lines 356-363 *)
EndToken ==
    /\ pc = "walk"
    /\ tradeIdx > Len(sortedTrades)
    /\ tradeCycles' = EmitTradeCycle(tradeCycles, CurrentMint, tradeGroups)
    /\ tokIdx' = tokIdx + 1
    /\ pc' = "tokens"
    /\ sortedTrades' = <<>>
    /\ tradeIdx' = 0
    /\ tradeGroups' = <<>>
    /\ currentGroup' = 0
    /\ runningBalance' = 0
    /\ tradeCounter' = 1
    /\ UNCHANGED <<trades, given, tokenMap, flat>>

(* calculateTradeCycles, line 366 *)
ReturnCycles ==
    /\ pc = "tokens"
    /\ tokIdx > Len(tokenMap)
    /\ pc' = "calculated"
    /\ UNCHANGED <<trades, given, tokenMap, tokIdx, walkVars, tradeCycles, flat>>

(* SummaryView, line 123: flattenTradeCycles(tradeCycles) *)
Flatten ==
    /\ pc = "calculated"
    /\ flat' = FlattenTradeCycles(tradeCycles)
    /\ pc' = "done"
    /\ UNCHANGED <<trades, given, tokenMap, tokIdx, walkVars, tradeCycles>>

(* flattenTradeCycles, lines 380-382, called without a cycle list;        *)
(* tradeCycles.flatMap on a value that is not an array throws a TypeError  *)
FlattenMissing ==
    /\ pc = "calculated"
    /\ \E kind \in Nullish :
         IF IsMissingOrEmpty(kind, <<>>)
         THEN flat' = <<>> /\ pc' = "doneMissing"
         ELSE flat' = flat /\ pc' = "thrown"
    /\ UNCHANGED <<trades, given, tokenMap, tokIdx, walkVars, tradeCycles>>

Next ==
    \/ ReturnEmpty
    \/ GroupTrades
    \/ SkipExcluded
    \/ BeginToken
    \/ SkipTrade
    \/ ApplyTrade
    \/ EndToken
    \/ ReturnCycles
    \/ Flatten
    \/ FlattenMissing

Spec == Init /\ [][Next]_vars

SpecSym == InitSym /\ [][Next]_vars

SpecChain == InitChain /\ [][Next]_vars

(* The step-wise walk computes what the functions compute as a whole *)
StepsAgree ==
    /\ pc \in {"calculated", "done", "doneMissing"} => tradeCycles = CalculateTradeCycles(trades)
    /\ pc = "done" => flat = FlattenTradeCycles(CalculateTradeCycles(trades))

---------------------------------------------------------------------------
(* Vocabulary of the properties *)

Range(seq) == {seq[i] : i \in DOMAIN seq}

(* calculateTradeCycles has returned *)
Returned == pc \in {"calculated", "done", "doneMissing"}

(* The groups of the asset being walked, and the groups already emitted *)
WalkGroups == Range(tradeGroups)

CycleGroups == UNION {Range(tradeCycles[c].tradeGroups) : c \in DOMAIN tradeCycles}

AllGroups == WalkGroups \cup CycleGroups

RECURSIVE SumAmountOut(_)
SumAmountOut(seq) == IF seq = <<>> THEN 0 ELSE Head(seq).amountOut + SumAmountOut(Tail(seq))

RECURSIVE SumAmountIn(_)
SumAmountIn(seq) == IF seq = <<>> THEN 0 ELSE Head(seq).amountIn + SumAmountIn(Tail(seq))

(* The symbol matches a member of the excluded set, ignoring letter case *)
ExcludedIgnoringCase == {ToUpperCase(e) : e \in EXCLUDED_TOKENS}

MatchesExcluded(symbol) == ToUpperCase(symbol) \in ExcludedIgnoringCase

(* The trades of the input that involve the asset on exactly one side, in  *)
(* chronological order (input order among equal timestamps)                *)
InvolvedTrades(tokenMint) ==
    SelectSeq(SortByTimestamp(trades),
              LAMBDA t : (t.tokenIn.address = tokenMint) # (t.tokenOut.address = tokenMint))

CyclesOf(tokenMint) == {c \in Range(tradeCycles) : c.tokenMint = tokenMint}

Addresses == {trades[i].tokenIn.address : i \in DOMAIN trades}
             \cup {trades[i].tokenOut.address : i \in DOMAIN trades}

---------------------------------------------------------------------------
(* C1: every returned TradeGroup with isComplete = true has                *)
(* |endBalance| < DUST_THRESHOLD.  The code violates it: a sell that       *)
(* arrives after the group was marked complete moves endBalance away from  *)
(* zero and leaves isComplete set.                                         *)
C1_CompleteImpliesDust ==
    Returned => \A g \in CycleGroups : g.isComplete => Abs(g.endBalance) < DUST_THRESHOLD

(* C2: every returned TradeGroup with |endBalance| < DUST_THRESHOLD has    *)
(* isComplete = true; and when the trades of a non-excluded asset are a    *)
(* buy of n then a sell of m with 0 <= n - m < DUST_THRESHOLD, the asset   *)
(* has one cycle of one group, complete, with endBalance = n - m.          *)
C2_DustImpliesComplete ==
    Returned =>
        /\ \A g \in CycleGroups : Abs(g.endBalance) < DUST_THRESHOLD => g.isComplete
        /\ \A a \in Addresses :
             LET inv == InvolvedTrades(a)
             IN  ( /\ Len(inv) = 2
                   /\ inv[1].tokenOut.address = a
                   /\ inv[2].tokenIn.address = a
                   /\ ~MatchesExcluded(inv[1].tokenOut.symbol)
                   /\ ~MatchesExcluded(inv[2].tokenIn.symbol)
                   /\ inv[1].amountOut - inv[2].amountIn \in 0..(DUST_THRESHOLD - 1) )
                 => /\ Cardinality(CyclesOf(a)) = 1
                    /\ \A c \in CyclesOf(a) :
                         /\ Len(c.tradeGroups) = 1
                         /\ c.tradeGroups[1].isComplete
                         /\ c.tradeGroups[1].endBalance = inv[1].amountOut - inv[2].amountIn

(* C2 witness: a returned group closed on a non-zero residual below the    *)
(* threshold, after a buy and a sell.                                      *)
C2_Witness ==
    /\ Returned
    /\ \E g \in CycleGroups :
         /\ Len(g.buys) = 1 /\ Len(g.sells) = 1
         /\ g.endBalance > 0 /\ g.endBalance < DUST_THRESHOLD
         /\ g.isComplete

(* C3: in every group, during the walk and in the output, profitLoss =     *)
(* totalSellValue - totalBuyValue.                                         *)
C3_ProfitLossFromTotals ==
    \A g \in AllGroups : g.profitLoss = g.totalSellValue - g.totalBuyValue

(* C3 witness: a returned group with one buy and two partial sells *)
C3_Witness ==
    /\ Returned
    /\ \E g \in CycleGroups :
         /\ Len(g.buys) = 1 /\ Len(g.sells) = 2
         /\ g.profitLoss # 0
         /\ g.profitLoss = g.totalSellValue - g.totalBuyValue

(* C4: in every group, during the walk and in the output, endBalance =     *)
(* startBalance + totalBuyAmount - totalSellAmount, the totals being the   *)
(* sums of amountOut over the buys and of amountIn over the sells.         *)
C4_BalanceEquation ==
    \A g \in AllGroups :
        /\ g.totalBuyAmount = SumAmountOut(g.buys)
        /\ g.totalSellAmount = SumAmountIn(g.sells)
        /\ g.endBalance = g.startBalance + g.totalBuyAmount - g.totalSellAmount

(* C4 witness: buys of 1000 and 1000, then a sell of 1500: endBalance 500 *)
C4_Witness ==
    /\ Returned
    /\ \E g \in CycleGroups :
         /\ Len(g.buys) = 2 /\ Len(g.sells) = 1
         /\ g.totalBuyAmount = 2000 /\ g.totalSellAmount = 1500
         /\ g.endBalance = 500

(* C5: in every group, during the walk and in the output, endDate and      *)
(* duration are both present if isComplete and both absent otherwise.      *)
C5_DatesIffComplete ==
    \A g \in AllGroups :
        /\ g.isComplete => Len(g.endDate) = 1 /\ Len(g.duration) = 1
        /\ ~g.isComplete => Len(g.endDate) = 0 /\ Len(g.duration) = 0

(* C5 witness: an asset returned with a complete and an open group *)
C5_Witness ==
    /\ Returned
    /\ \E c \in Range(tradeCycles) :
         /\ \E g \in Range(c.tradeGroups) : g.isComplete /\ Len(g.endDate) = 1
         /\ \E g \in Range(c.tradeGroups) : ~g.isComplete /\ Len(g.endDate) = 0

(* C6: a trade applied by the walk opens a new cycle exactly when the      *)
(* asset has no cycle yet, or |runningBalance| < DUST_THRESHOLD and the    *)
(* trade is a buy; in both cases the trade is recorded in the last cycle   *)
(* of the list, and a skipped trade opens nothing.                         *)
C6_OpensExactlyWhen ==
    [][ (pc = "walk" /\ tradeIdx' = tradeIdx + 1) =>
          LET trade == sortedTrades[tradeIdx]
              isBuy == trade.tokenOut.address = CurrentMint
                       /\ trade.tokenIn.address # CurrentMint
              isSell == trade.tokenIn.address = CurrentMint
                        /\ trade.tokenOut.address # CurrentMint
              opens == Len(tradeGroups) = 0
                       \/ (Abs(runningBalance) < DUST_THRESHOLD /\ isBuy)
              last == tradeGroups'[Len(tradeGroups')]
          IN  IF isBuy \/ isSell
              THEN /\ opens => Len(tradeGroups') = Len(tradeGroups) + 1
                   /\ ~opens => Len(tradeGroups') = Len(tradeGroups)
                   /\ isBuy => last.buys[Len(last.buys)] = trade
                   /\ isSell => last.sells[Len(last.sells)] = trade
              ELSE tradeGroups' = tradeGroups
      ]_vars

(* C6 witness: buy, sell back to zero, buy again: two cycles, the first    *)
(* complete and the second open.                                           *)
C6_Witness ==
    /\ Returned
    /\ \E c \in Range(tradeCycles) :
         /\ Len(c.tradeGroups) = 2
         /\ c.tradeGroups[1].isComplete
         /\ Len(c.tradeGroups[1].buys) = 1 /\ Len(c.tradeGroups[1].sells) = 1
         /\ ~c.tradeGroups[2].isComplete
         /\ Len(c.tradeGroups[2].buys) = 1

(* C7: no returned TradeCycle or TradeGroup has a token symbol that        *)
(* matches, ignoring letter case, a member of the excluded set.  The code  *)
(* violates it: it looks up symbol.toUpperCase() in a set that holds       *)
(* 'mSOL', 'stSOL', 'jitoSOL', 'bSOL' and 'Wrapped SOL' in mixed case, and *)
(* it tests only the first trade of the bucket.                            *)
C7_NoExcludedSymbol ==
    Returned =>
        \A c \in Range(tradeCycles) :
            /\ ~MatchesExcluded(c.token)
            /\ \A g \in Range(c.tradeGroups) : ~MatchesExcluded(g.token)

(* C8: when the symbol resolved for an address (the label given by the     *)
(* first trade of its bucket) is an excluded symbol, no TradeCycle with    *)
(* that tokenMint is returned.  Violated for the excluded symbol 'mSOL',   *)
(* which the test of C7 lets through.                                      *)
C8_ExcludedBucketDiscarded ==
    Returned =>
        LET map == GroupTradesByToken(trades)
        IN  \A i \in DOMAIN map :
                MatchesExcluded(ExtractTokenSymbol(map[i].trades[1], map[i].mint))
                    => CyclesOf(map[i].mint) = {}

(* C9: for pairwise distinct timestamps, every order of the input array    *)
(* gives every asset the same list of cycles.  Violated when the trades    *)
(* label an address differently: the exclusion test reads the first trade  *)
(* of the bucket in input order.                                           *)
DistinctTimestamps(ts) ==
    \A i, j \in DOMAIN ts : i # j => ts[i].timestamp # ts[j].timestamp

Orders(n) == {p \in [1..n -> 1..n] : \A i, j \in 1..n : i # j => p[i] # p[j]}

C9_OrderIndependent ==
    (pc = "done" /\ DistinctTimestamps(trades)) =>
        \A p \in Orders(Len(trades)) :
            Range(CalculateTradeCycles([i \in DOMAIN trades |-> trades[p[i]]]))
                = Range(tradeCycles)

(* C10: the globalTradeNumber values of the flattened output are pairwise  *)
(* distinct and are exactly 1..N, N the number of groups of the input.     *)
RECURSIVE CountGroups(_)
CountGroups(cycles) ==
    IF cycles = <<>> THEN 0 ELSE Len(Head(cycles).tradeGroups) + CountGroups(Tail(cycles))

C10_GlobalNumbersContiguous ==
    pc = "done" =>
        /\ Len(flat) = CountGroups(tradeCycles)
        /\ {flat[i].globalTradeNumber : i \in DOMAIN flat} = 1..CountGroups(tradeCycles)
        /\ \A i, j \in DOMAIN flat :
               i # j => flat[i].globalTradeNumber # flat[j].globalTradeNumber

(* C10 witness: groups of two assets flattened, the sort having moved the  *)
(* group numbered 1 away from the first place.                             *)
C10_Witness ==
    /\ pc = "done"
    /\ Len(tradeCycles) = 2
    /\ Len(flat) >= 2
    /\ flat[1].globalTradeNumber # 1

(* C11: the flattened output is ordered by startDate non-increasing, and   *)
(* entries with equal startDate are in ascending globalTradeNumber.        *)
C11_NewestFirstStable ==
    pc = "done" =>
        \A i, j \in DOMAIN flat :
            i < j =>
                /\ flat[i].startDate >= flat[j].startDate
                /\ flat[i].startDate = flat[j].startDate
                       => flat[i].globalTradeNumber < flat[j].globalTradeNumber

(* C11 witness: three entries, two of them with the same startDate, and    *)
(* an entry moved in front of an entry with a smaller number.              *)
C11_Witness ==
    /\ pc = "done"
    /\ Len(flat) = 3
    /\ \E i \in 1..2 : flat[i].startDate = flat[i + 1].startDate
    /\ \E i \in 1..2 : flat[i].globalTradeNumber > flat[i + 1].globalTradeNumber

(* C12: calculateTradeCycles returns an empty list for an empty, null or   *)
(* undefined trade list, flattenTradeCycles returns an empty list for an   *)
(* empty or missing cycle list, and neither throws.                        *)
C12_EmptyOrMissingInput ==
    /\ pc # "thrown"
    /\ (Returned /\ (given \in Nullish \/ Len(trades) = 0)) => tradeCycles = <<>>
    /\ (pc = "done" /\ Len(tradeCycles) = 0) => flat = <<>>
    /\ pc = "doneMissing" => flat = <<>>

(* C12 witness: calculateTradeCycles was given no array and                *)
(* flattenTradeCycles no cycle list, and both have returned.               *)
C12_Witness ==
    /\ given \in Nullish
    /\ pc = "doneMissing"
    /\ tradeCycles = <<>>
    /\ flat = <<>>

(* The trades of the input that mention the address, in input order *)
Mentions(t, tokenMint) == t.tokenIn.address = tokenMint \/ t.tokenOut.address = tokenMint

BucketOf(tokenMint) == SelectSeq(trades, LAMBDA t : Mentions(t, tokenMint))

(* No trade labels the address with a symbol of the excluded set *)
NonExcluded(tokenMint) ==
    \A t \in Range(trades) :
        /\ t.tokenIn.address = tokenMint => ~MatchesExcluded(t.tokenIn.symbol)
        /\ t.tokenOut.address = tokenMint => ~MatchesExcluded(t.tokenOut.symbol)

(* Number of TradeCycles returned for the address *)
CycleCount(tokenMint) ==
    Cardinality({c \in DOMAIN tradeCycles : tradeCycles[c].tokenMint = tokenMint})

IsBuyOf(t, tokenMint) == t.tokenOut.address = tokenMint /\ t.tokenIn.address # tokenMint

IsSellOf(t, tokenMint) == t.tokenIn.address = tokenMint /\ t.tokenOut.address # tokenMint

(* C13: a non-excluded asset whose only trades are a buy of n >=           *)
(* DUST_THRESHOLD for value b and a later sell of n for value s has one    *)
(* TradeCycle with one TradeGroup: 1 buy, 1 sell, totalBuyAmount =         *)
(* totalSellAmount = n, isComplete, profitLoss = s - b.                    *)
C13_BuyThenSellAll ==
    pc = "calculated" =>
        \A a \in Addresses :
            Len(BucketOf(a)) = 2 =>
                \A i, j \in 1..2 :
                    LET buy  == BucketOf(a)[i]
                        sell == BucketOf(a)[j]
                    IN  ( /\ IsBuyOf(buy, a) /\ IsSellOf(sell, a)
                          /\ buy.timestamp < sell.timestamp
                          /\ buy.amountOut >= DUST_THRESHOLD
                          /\ sell.amountIn = buy.amountOut
                          /\ NonExcluded(a) )
                        => /\ CycleCount(a) = 1
                           /\ \A c \in CyclesOf(a) :
                                /\ Len(c.tradeGroups) = 1
                                /\ c.tradeGroups[1].buys = <<buy>>
                                /\ c.tradeGroups[1].sells = <<sell>>
                                /\ c.tradeGroups[1].totalBuyAmount = buy.amountOut
                                /\ c.tradeGroups[1].totalSellAmount = buy.amountOut
                                /\ c.tradeGroups[1].isComplete
                                /\ c.tradeGroups[1].profitLoss = sell.valueUSD - buy.valueUSD

(* C13 witness: buy 1000 for 100 then sell 1000 for 120: profitLoss 20 *)
C13_Witness ==
    /\ pc = "calculated"
    /\ Len(trades) = 2
    /\ \E c \in Range(tradeCycles) :
         /\ Len(c.tradeGroups) = 1
         /\ Len(c.tradeGroups[1].buys) = 1 /\ Len(c.tradeGroups[1].sells) = 1
         /\ c.tradeGroups[1].totalBuyAmount = 1000
         /\ c.tradeGroups[1].totalSellAmount = 1000
         /\ c.tradeGroups[1].isComplete
         /\ c.tradeGroups[1].profitLoss = 20

(* C14: a non-excluded asset with exactly one trade, of amount >=          *)
(* DUST_THRESHOLD, has exactly one cycle of one group: for a buy, 1 buy,   *)
(* 0 sells, not complete, endBalance = amountOut, no endDate or duration;  *)
(* for a sell, 0 buys, 1 sell, not complete.                               *)
C14_LoneTrade ==
    pc = "calculated" =>
        \A a \in Addresses :
            LET bucket == BucketOf(a)
            IN  Len(bucket) = 1 =>
                  LET t == bucket[1]
                  IN  /\ (IsBuyOf(t, a) /\ t.amountOut >= DUST_THRESHOLD /\ NonExcluded(a)) =>
                            /\ CycleCount(a) = 1
                            /\ \A c \in CyclesOf(a) :
                                 /\ Len(c.tradeGroups) = 1
                                 /\ c.tradeGroups[1].buys = <<t>>
                                 /\ c.tradeGroups[1].sells = <<>>
                                 /\ ~c.tradeGroups[1].isComplete
                                 /\ c.tradeGroups[1].endBalance = t.amountOut
                                 /\ c.tradeGroups[1].endDate = <<>>
                                 /\ c.tradeGroups[1].duration = <<>>
                      /\ (IsSellOf(t, a) /\ t.amountIn >= DUST_THRESHOLD /\ NonExcluded(a)) =>
                            /\ CycleCount(a) = 1
                            /\ \A c \in CyclesOf(a) :
                                 /\ Len(c.tradeGroups) = 1
                                 /\ c.tradeGroups[1].buys = <<>>
                                 /\ c.tradeGroups[1].sells = <<t>>
                                 /\ ~c.tradeGroups[1].isComplete

(* C14 witness: the input is one sell, returned as one open cycle *)
C14_Witness ==
    /\ pc = "calculated"
    /\ Len(trades) = 1
    /\ Len(tradeCycles) = 1
    /\ Len(tradeCycles[1].tradeGroups[1].sells) = 1
    /\ ~tradeCycles[1].tradeGroups[1].isComplete
    /\ tradeCycles[1].tradeGroups[1].endBalance <= 0 - DUST_THRESHOLD

(* C15: a newly opened cycle has startBalance equal to the running balance *)
(* held before the opening trade: 0 for the first cycle of the asset, and  *)
(* otherwise an amount with |startBalance| < DUST_THRESHOLD; the field     *)
(* keeps that value afterwards.                                            *)
StartBalancesCarried(groups) ==
    \A i \in DOMAIN groups :
        IF i = 1 THEN groups[i].startBalance = 0
        ELSE Abs(groups[i].startBalance) < DUST_THRESHOLD

C15_StartBalanceIsRunningBalance ==
    [][ /\ (pc = "walk" /\ Len(tradeGroups') = Len(tradeGroups) + 1) =>
              tradeGroups'[Len(tradeGroups')].startBalance = runningBalance
        /\ StartBalancesCarried(tradeGroups')
        /\ \A c \in DOMAIN tradeCycles' : StartBalancesCarried(tradeCycles'[c].tradeGroups)
      ]_vars

(* C15 witness: a second cycle opened on a carried dust amount *)
C15_Witness ==
    /\ Returned
    /\ \E c \in Range(tradeCycles) :
         /\ Len(c.tradeGroups) >= 2
         /\ c.tradeGroups[2].startBalance # 0
         /\ c.tradeGroups[2].startBalance = c.tradeGroups[1].endBalance

(* C16: in one asset's cycle list the tradeNumbers are strictly increasing *)
(* in list order (hence unique), and the first is 1.                       *)
TradeNumbersIncrease(groups) ==
    /\ Len(groups) > 0 => groups[1].tradeNumber = 1
    /\ \A i, j \in DOMAIN groups : i < j => groups[i].tradeNumber < groups[j].tradeNumber

C16_TradeNumbers ==
    /\ TradeNumbersIncrease(tradeGroups)
    /\ \A c \in DOMAIN tradeCycles : TradeNumbersIncrease(tradeCycles[c].tradeGroups)

(* C16 witness: an asset returned with three cycles *)
C16_Witness ==
    /\ Returned
    /\ \E c \in Range(tradeCycles) :
         /\ Len(c.tradeGroups) = 3
         /\ c.tradeGroups[3].tradeNumber = 3

(* C17: a buy with amountOut = 0 and valueUSD = 0 that is the only trade   *)
(* of a non-excluded asset is not filtered out: the asset has exactly one  *)
(* TradeCycle, whose first group has totalBuyAmount = 0 and                *)
(* totalBuyValue = 0; when it is the whole input, with an excluded symbol  *)
(* on its other leg, exactly one TradeCycle is returned.                   *)
C17_ZeroBuyKept ==
    pc = "calculated" =>
        \A a \in Addresses :
            LET bucket == BucketOf(a)
            IN  ( /\ Len(bucket) = 1
                  /\ IsBuyOf(bucket[1], a)
                  /\ bucket[1].amountOut = 0 /\ bucket[1].valueUSD = 0
                  /\ NonExcluded(a) )
                => /\ CycleCount(a) = 1
                   /\ \A c \in CyclesOf(a) :
                        /\ c.tradeGroups[1].buys = <<bucket[1]>>
                        /\ c.tradeGroups[1].totalBuyAmount = 0
                        /\ c.tradeGroups[1].totalBuyValue = 0
                   /\ (Len(trades) = 1 /\ IsExcludedToken(bucket[1].tokenIn.symbol))
                          => Len(tradeCycles) = 1

(* C17 witness: the input is one zero buy, returned as one cycle *)
C17_Witness ==
    /\ pc = "calculated"
    /\ Len(trades) = 1
    /\ trades[1].amountOut = 0 /\ trades[1].valueUSD = 0
    /\ Len(tradeCycles) = 1
    /\ tradeCycles[1].tradeGroups[1].totalBuyAmount = 0
    /\ Len(tradeCycles[1].tradeGroups[1].buys) = 1

(* C18: determineTradeDirection(trade, asset) is "buy" when the asset is    *)
(* only on the out side, "sell" when it is only on the in side, and null   *)
(* (not involved) when it is on neither side and when it is on both.       *)
(* The function reads its arguments and writes nothing.                    *)
C18_DirectionTable ==
    pc = "calculated" => \A t \in Range(trades) : \A a \in Addresses :
        LET onOut == t.tokenOut.address = a
            onIn  == t.tokenIn.address = a
            d     == DetermineTradeDirection(t, a)
        IN  /\ (onOut /\ ~onIn) => d = "buy"
            /\ (onIn /\ ~onOut) => d = "sell"
            /\ (onOut /\ onIn) => d = "null"
            /\ (~onOut /\ ~onIn) => d = "null"

(* C18 witness: a run whose input shows all four cases *)
C18_Witness ==
    /\ pc = "calculated"
    /\ \E t \in Range(trades) : \E a \in Addresses :
         t.tokenOut.address = a /\ t.tokenIn.address = a
    /\ \E t \in Range(trades) : \E a \in Addresses :
         t.tokenOut.address # a /\ t.tokenIn.address # a
    /\ \E t \in Range(trades) : \E a \in Addresses :
         DetermineTradeDirection(t, a) = "buy"
    /\ \E t \in Range(trades) : \E a \in Addresses :
         DetermineTradeDirection(t, a) = "sell"

(* C19: when groupTradesByToken has returned there is one bucket per       *)
(* address of the input, and the bucket of an address holds exactly the    *)
(* input trades with that address on either side, each once (a self swap   *)
(* once), in input order.                                                  *)
C19_Buckets ==
    pc = "tokens" =>
        /\ \A i, j \in DOMAIN tokenMap : tokenMap[i].mint = tokenMap[j].mint => i = j
        /\ {tokenMap[i].mint : i \in DOMAIN tokenMap} = Addresses
        /\ \A i \in DOMAIN tokenMap : tokenMap[i].trades = BucketOf(tokenMap[i].mint)

(* C19 witness: a bucket holding a self swap once, next to other trades *)
C19_Witness ==
    /\ pc = "tokens"
    /\ \E i \in DOMAIN tokenMap :
         /\ Len(tokenMap[i].trades) = 3
         /\ \E k \in 1..3 :
              tokenMap[i].trades[k].tokenIn.address = tokenMap[i].trades[k].tokenOut.address
         /\ \E k \in 1..3 :
              tokenMap[i].trades[k].tokenIn.address # tokenMap[i].trades[k].tokenOut.address

(* C20: no step changes the input array (length, order, every field of     *)
(* every trade), and every trade held in a bucket, in the sorted copy, or  *)
(* in the buys and sells of a group is one of the input's records.         *)
TradesOfGroups(groups) ==
    UNION {Range(groups[i].buys) \cup Range(groups[i].sells) : i \in DOMAIN groups}

HeldTrades ==
    UNION {Range(tokenMap[i].trades) : i \in DOMAIN tokenMap}
    \cup Range(sortedTrades)
    \cup TradesOfGroups(tradeGroups)
    \cup UNION {TradesOfGroups(tradeCycles[c].tradeGroups) : c \in DOMAIN tradeCycles}
    \cup TradesOfGroups(flat)

C20_InputUnchanged ==
    [][ /\ trades' = trades
        /\ HeldTrades' \subseteq Range(trades) ]_vars

(* C20 witness: a returned cycle holding trades, after a sort that         *)
(* reordered a bucket                                                      *)
C20_Witness ==
    /\ pc = "done"
    /\ \E i, j \in DOMAIN trades : i < j /\ trades[i].timestamp > trades[j].timestamp
    /\ \E c \in Range(tradeCycles) :
         Len(c.tradeGroups[1].buys) + Len(c.tradeGroups[1].sells) >= 2

(* C21: applying a buy appends the trade to buys and adds amountOut to     *)
(* totalBuyAmount and valueUSD to totalBuyValue, leaving the sell side     *)
(* unchanged; applying a sell appends to sells and adds amountIn to        *)
(* totalSellAmount and valueUSD to totalSellValue, leaving the buy side    *)
(* unchanged.  Hence every total is the sum of its field over its list.    *)
RECURSIVE SumValueUSD(_)
SumValueUSD(seq) == IF seq = <<>> THEN 0 ELSE Head(seq).valueUSD + SumValueUSD(Tail(seq))

TotalsAreListSums(g) ==
    /\ g.totalBuyAmount = SumAmountOut(g.buys)
    /\ g.totalBuyValue = SumValueUSD(g.buys)
    /\ g.totalSellAmount = SumAmountIn(g.sells)
    /\ g.totalSellValue = SumValueUSD(g.sells)

(* The lists and totals of a group, and those of a group just created *)
Sides(g) == [ buys |-> g.buys, sells |-> g.sells,
              totalBuyAmount |-> g.totalBuyAmount, totalBuyValue |-> g.totalBuyValue,
              totalSellAmount |-> g.totalSellAmount, totalSellValue |-> g.totalSellValue ]

EmptySides == [ buys |-> <<>>, sells |-> <<>>,
                totalBuyAmount |-> 0, totalBuyValue |-> 0,
                totalSellAmount |-> 0, totalSellValue |-> 0 ]

(* A step of the walk that applied the trade at tradeIdx to a group *)
TradeApplied == pc = "walk" /\ pc' = "walk" /\ tradeGroups' # tradeGroups

C21_ApplyUpdatesOneSide ==
    [][ /\ TradeApplied =>
              LET t      == sortedTrades[tradeIdx]
                  old    == IF Len(tradeGroups') > Len(tradeGroups) THEN EmptySides
                            ELSE Sides(tradeGroups[Len(tradeGroups)])
                  new    == Sides(tradeGroups'[Len(tradeGroups')])
              IN  /\ IsBuyOf(t, CurrentMint) =>
                        new = [old EXCEPT !.buys = Append(@, t),
                                          !.totalBuyAmount = @ + t.amountOut,
                                          !.totalBuyValue = @ + t.valueUSD]
                  /\ IsSellOf(t, CurrentMint) =>
                        new = [old EXCEPT !.sells = Append(@, t),
                                          !.totalSellAmount = @ + t.amountIn,
                                          !.totalSellValue = @ + t.valueUSD]
        /\ \A i \in DOMAIN tradeGroups' : TotalsAreListSums(tradeGroups'[i])
        /\ \A c \in DOMAIN tradeCycles' :
              \A i \in DOMAIN tradeCycles'[c].tradeGroups :
                  TotalsAreListSums(tradeCycles'[c].tradeGroups[i])
      ]_vars

(* C21 witness: a returned group with two buys and a sell *)
C21_Witness ==
    /\ pc = "calculated"
    /\ \E c \in Range(tradeCycles) : \E i \in DOMAIN c.tradeGroups :
         /\ Len(c.tradeGroups[i].buys) = 2
         /\ Len(c.tradeGroups[i].sells) = 1
         /\ c.tradeGroups[i].totalBuyValue > c.tradeGroups[i].buys[1].valueUSD
         /\ c.tradeGroups[i].totalSellAmount > 0

(* C22: for every complete cycle, endDate is the timestamp of the most     *)
(* recent trade of that cycle after which |runningBalance| <               *)
(* DUST_THRESHOLD, and duration = (endDate - startDate) * MS_TO_SECONDS,   *)
(* which is >= 0.                                                          *)
(* The trades of a group in the order the walk applied them *)
TradesInWalkOrder(g) ==
    SelectSeq(SortByTimestamp(BucketOf(g.tokenMint)),
              LAMBDA t : t \in Range(g.buys) \cup Range(g.sells))

(* The running balance after the k-th trade of the group *)
RECURSIVE BalanceAfter(_, _, _)
BalanceAfter(g, seq, k) ==
    IF k = 0 THEN g.startBalance
    ELSE BalanceAfter(g, seq, k - 1)
         + (IF seq[k] \in Range(g.buys) THEN seq[k].amountOut ELSE 0 - seq[k].amountIn)

NotInvolved(t, tokenMint) == (t.tokenIn.address = tokenMint) = (t.tokenOut.address = tokenMint)

C23_NotInvolvedSkipped ==
    [][ /\ ( /\ pc = "walk" /\ tradeIdx <= Len(sortedTrades)
             /\ NotInvolved(sortedTrades[tradeIdx], CurrentMint) )
            => /\ tradeGroups' = tradeGroups
               /\ currentGroup' = currentGroup
               /\ runningBalance' = runningBalance
               /\ tradeCounter' = tradeCounter
               /\ tradeCycles' = tradeCycles
               /\ pc' = "walk" /\ tradeIdx' = tradeIdx + 1
        /\ \A c \in DOMAIN tradeCycles' :
              \A i \in DOMAIN tradeCycles'[c].tradeGroups :
                  Len(tradeCycles'[c].tradeGroups[i].buys)
                    + Len(tradeCycles'[c].tradeGroups[i].sells) >= 1
        /\ pc' = "calculated" =>
              \A a \in Addresses :
                  (\A t \in Range(BucketOf(a)) : NotInvolved(t, a)) =>
                      \A c \in DOMAIN tradeCycles' : tradeCycles'[c].tokenMint # a
      ]_vars

(* C23 witness: a run over self swaps only has ended without a cycle *)
C23_Witness ==
    /\ pc = "calculated"
    /\ Len(trades) >= 2
    /\ \A t \in Range(trades) : t.tokenIn.address = t.tokenOut.address
    /\ ~MatchesExcluded(trades[1].tokenIn.symbol)
    /\ tradeCycles = <<>>

(* C24: a cycle added to an asset's list is never removed, and once a      *)
(* later cycle is open no trade changes any field of an earlier one: only  *)
(* the most recently opened cycle is mutated.  The list handed over at the *)
(* end of the walk is emitted as it stands.                                *)
C24_EarlierCyclesFrozen ==
    [][ /\ (pc = "walk" /\ pc' = "walk") =>
              /\ Len(tradeGroups') >= Len(tradeGroups)
              /\ \A i \in 1..(Len(tradeGroups) - 1) : tradeGroups'[i] = tradeGroups[i]
        /\ (pc = "walk" /\ pc' # "walk" /\ Len(tradeGroups) > 0) =>
              /\ Len(tradeCycles') = Len(tradeCycles) + 1
              /\ tradeCycles'[Len(tradeCycles')].tradeGroups = tradeGroups
        /\ Len(tradeCycles') >= Len(tradeCycles)
        /\ \A c \in DOMAIN tradeCycles : tradeCycles'[c] = tradeCycles[c]
      ]_vars

(* C24 witness: a second cycle that took a further trade after it opened *)
C24_Witness ==
    /\ pc = "calculated"
    /\ \E c \in Range(tradeCycles) :
         /\ Len(c.tradeGroups) = 2
         /\ Len(c.tradeGroups[2].buys) + Len(c.tradeGroups[2].sells) = 2

(* C25: when a new cycle is opened while an earlier one exists, the        *)
(* earlier one is already complete and the opening step leaves it as it    *)
(* was; isComplete never goes from true to false; in every returned list   *)
(* all cycles but the last are complete.                                   *)
C25_PreviousAlreadyComplete ==
    [][ /\ ( /\ pc = "walk" /\ pc' = "walk"
             /\ Len(tradeGroups) >= 1
             /\ Len(tradeGroups') = Len(tradeGroups) + 1 )
            => /\ tradeGroups[Len(tradeGroups)].isComplete
               /\ tradeGroups'[Len(tradeGroups)] = tradeGroups[Len(tradeGroups)]
        /\ (pc = "walk" /\ pc' = "walk") =>
              \A i \in DOMAIN tradeGroups :
                  tradeGroups[i].isComplete =>
                      i \in DOMAIN tradeGroups' /\ tradeGroups'[i].isComplete
        /\ \A c \in DOMAIN tradeCycles' :
              \A i \in 1..(Len(tradeCycles'[c].tradeGroups) - 1) :
                  tradeCycles'[c].tradeGroups[i].isComplete
      ]_vars

(* C25 witness: a returned list of two cycles whose last one is open *)
C25_Witness ==
    /\ pc = "calculated"
    /\ \E c \in Range(tradeCycles) :
         /\ Len(c.tradeGroups) = 2
         /\ c.tradeGroups[1].isComplete
         /\ ~c.tradeGroups[2].isComplete

(* C26: for every emitted asset its cycles partition the bucket's          *)
(* involved trades: each trade of the bucket that is not a self swap is    *)
(* held exactly once, in buys when the asset is on its out side and in     *)
(* sells when it is on its in side, and no cycle of the asset holds a      *)
(* trade that does not involve the asset.                                  *)
BuyPlaces(groups, t) ==
    {p \in (DOMAIN groups) \X (1..Len(trades)) :
        p[2] \in DOMAIN groups[p[1]].buys /\ groups[p[1]].buys[p[2]] = t}

SellPlaces(groups, t) ==
    {p \in (DOMAIN groups) \X (1..Len(trades)) :
        p[2] \in DOMAIN groups[p[1]].sells /\ groups[p[1]].sells[p[2]] = t}

C26_CyclesPartitionBucket ==
    pc = "calculated" =>
        \A c \in DOMAIN tradeCycles :
            LET a      == tradeCycles[c].tokenMint
                groups == tradeCycles[c].tradeGroups
            IN  /\ \A t \in Range(BucketOf(a)) :
                     /\ IsBuyOf(t, a) =>
                           Cardinality(BuyPlaces(groups, t)) = 1 /\ SellPlaces(groups, t) = {}
                     /\ IsSellOf(t, a) =>
                           Cardinality(SellPlaces(groups, t)) = 1 /\ BuyPlaces(groups, t) = {}
                /\ \A t \in TradesOfGroups(groups) :
                     t \in Range(BucketOf(a)) /\ ~NotInvolved(t, a)

(* C26 witness: a bucket with a self swap whose other trades sit in two    *)
(* cycles                                                                  *)
C26_Witness ==
    /\ pc = "calculated"
    /\ Len(trades) = 3
    /\ \E t \in Range(trades) : t.tokenIn.address = t.tokenOut.address
    /\ \E c \in Range(tradeCycles) :
         /\ Len(c.tradeGroups) = 2
         /\ Cardinality(TradesOfGroups(c.tradeGroups)) = 2

(* C27: consecutive cycles of an asset chain on the running balance: the   *)
(* first startBalance is 0, cycle k+1's startBalance is cycle k's          *)
(* endBalance, and the last endBalance is the sum of amountOut over all    *)
(* the asset's buys minus the sum of amountIn over all its sells.          *)
C27_BalancesChain ==
    pc = "calculated" =>
        \A c \in DOMAIN tradeCycles :
            LET a      == tradeCycles[c].tokenMint
                groups == tradeCycles[c].tradeGroups
                bought == SelectSeq(BucketOf(a), LAMBDA t : IsBuyOf(t, a))
                sold   == SelectSeq(BucketOf(a), LAMBDA t : IsSellOf(t, a))
            IN  /\ groups[1].startBalance = 0
                /\ \A k \in 1..(Len(groups) - 1) :
                     groups[k + 1].startBalance = groups[k].endBalance
                /\ groups[Len(groups)].endBalance = SumAmountOut(bought) - SumAmountIn(sold)

(* C27 witness: a second cycle that starts from a carried amount and ends  *)
(* on the asset's net balance                                              *)
C27_Witness ==
    /\ pc = "calculated"
    /\ \E c \in Range(tradeCycles) :
         /\ Len(c.tradeGroups) = 2
         /\ c.tradeGroups[2].startBalance = 40
         /\ c.tradeGroups[2].endBalance = 80

(* C28: the cycles of an asset are in chronological order and do not       *)
(* overlap: a cycle's startDate is the timestamp of its earliest trade,    *)
(* the trades in buys and in sells are in non-decreasing timestamp order,  *)
(* and every trade of cycle k has a timestamp <= the startDate of cycle    *)
(* k+1.                                                                    *)
NonDecreasing(seq) ==
    \A i, j \in DOMAIN seq : i < j => seq[i].timestamp <= seq[j].timestamp

C28_ChronologicalCycles ==
    pc = "calculated" =>
        \A c \in DOMAIN tradeCycles :
            LET groups == tradeCycles[c].tradeGroups
            IN  /\ \A k \in DOMAIN groups :
                     LET held == Range(groups[k].buys) \cup Range(groups[k].sells)
                     IN  /\ \E t \in held : t.timestamp = groups[k].startDate
                         /\ \A t \in held : groups[k].startDate <= t.timestamp
                         /\ NonDecreasing(groups[k].buys)
                         /\ NonDecreasing(groups[k].sells)
                /\ \A k \in 1..(Len(groups) - 1) :
                     \A t \in Range(groups[k].buys) \cup Range(groups[k].sells) :
                         t.timestamp <= groups[k + 1].startDate

(* C28 witness: an input given newest first, returned as two cycles in     *)
(* chronological order                                                     *)
C28_Witness ==
    /\ pc = "calculated"
    /\ Len(trades) = 3
    /\ trades[1].timestamp > trades[2].timestamp
    /\ trades[2].timestamp > trades[3].timestamp
    /\ \E c \in Range(tradeCycles) :
         /\ Len(c.tradeGroups) = 2
         /\ c.tradeGroups[1].startDate < c.tradeGroups[2].startDate

(* C29: flattenTradeCycles neither drops, duplicates nor alters cycles:    *)
(* its output has as many entries as the input has TradeGroups, each       *)
(* entry equals one input TradeGroup in every field but the added          *)
(* globalTradeNumber, and the input list and its TradeGroups are left as   *)
(* they were (unsorted, without globalTradeNumber).                        *)
WithoutGlobalNumber(entry) ==
    [f \in (DOMAIN entry) \ {"globalTradeNumber"} |-> entry[f]]

GroupPlaces ==
    {p \in (DOMAIN tradeCycles) \X (1..Len(trades)) :
        p[2] \in DOMAIN tradeCycles[p[1]].tradeGroups}

C29_FlattenKeepsGroups ==
    [][ (pc = "calculated" /\ pc' = "done") =>
            /\ tradeCycles' = tradeCycles
            /\ \A g \in CycleGroups : "globalTradeNumber" \notin DOMAIN g
            /\ Len(flat') = Cardinality(GroupPlaces)
            /\ \A p \in GroupPlaces :
                 Cardinality({j \in DOMAIN flat' :
                                WithoutGlobalNumber(flat'[j])
                                  = tradeCycles[p[1]].tradeGroups[p[2]]}) = 1
            /\ \A j \in DOMAIN flat' :
                 /\ "globalTradeNumber" \in DOMAIN flat'[j]
                 /\ WithoutGlobalNumber(flat'[j]) \in CycleGroups
      ]_vars

(* C29 witness: three groups of two assets, flattened in another order *)
C29_Witness ==
    /\ pc = "done"
    /\ Len(tradeCycles) = 2
    /\ Len(flat) = 3
    /\ WithoutGlobalNumber(flat[1]) # tradeCycles[1].tradeGroups[1]
    /\ \E j \in DOMAIN flat : ~flat[j].isComplete

(* C30: a swap between two different non-excluded assets is counted in    *)
(* both assets' cycles: as a sell of amountIn in a cycle of its in-asset   *)
(* and as a buy of amountOut in a cycle of its out-asset, the same         *)
(* valueUSD entering totalSellValue of the first and totalBuyValue of the  *)
(* second.                                                                 *)
C30_SwapCountedOnBothSides ==
    pc = "calculated" =>
        \A t \in Range(trades) :
            ( /\ t.tokenIn.address # t.tokenOut.address
              /\ NonExcluded(t.tokenIn.address)
              /\ NonExcluded(t.tokenOut.address) )
            => /\ \E c \in CyclesOf(t.tokenIn.address) : \E k \in DOMAIN c.tradeGroups :
                    LET g == c.tradeGroups[k]
                    IN  /\ t \in Range(g.sells) /\ t \notin Range(g.buys)
                        /\ g.totalSellAmount = SumAmountIn(g.sells)
                        /\ g.totalSellValue = SumValueUSD(g.sells)
               /\ \E c \in CyclesOf(t.tokenOut.address) : \E k \in DOMAIN c.tradeGroups :
                    LET g == c.tradeGroups[k]
                    IN  /\ t \in Range(g.buys) /\ t \notin Range(g.sells)
                        /\ g.totalBuyAmount = SumAmountOut(g.buys)
                        /\ g.totalBuyValue = SumValueUSD(g.buys)

(* C30 witness: a swap of A for B is the sell that closes a cycle of A and *)
(* the buy that opens one of B, both carrying its valueUSD                 *)
C30_Witness ==
    /\ pc = "calculated"
    /\ \E t \in Range(trades) :
         /\ t.tokenIn.address = "A" /\ t.tokenOut.address = "B"
         /\ \E ca \in CyclesOf("A") : \E cb \in CyclesOf("B") :
              /\ ca.tradeGroups[1].sells = <<t>>
              /\ Len(ca.tradeGroups[1].buys) = 1
              /\ ca.tradeGroups[1].totalSellValue = t.valueUSD
              /\ cb.tradeGroups[1].buys = <<t>>
              /\ cb.tradeGroups[1].totalBuyValue = t.valueUSD
              /\ cb.tradeGroups[1].totalBuyAmount = t.amountOut

====
